---------------------------- MODULE Spec2Model ----------------------------
(***************************************************************************)
(* A model of VerticalSpineModel (NTRTsim, dev/ultra-spine/VerticalSpine): *)
(* the structure graph that setup assembles, the models built from it, the *)
(* muscle map, and the step / getMuscles / getAllMuscles operations.       *)
(*                                                                         *)
(* Lengths are integers in units of 10^-5 (7.5 is 750000), densities in    *)
(* units of 10^-3 (0.026 is 26).  A point is a triple <<x, y, z>>.  Strings *)
(* are TLA+ strings; tag strings are split on spaces into tag sets.        *)
(***************************************************************************)
EXTENDS Integers, Sequences, FiniteSets, TLC

(***************************************************************************)
(* Bounds of the model.                                                    *)
(***************************************************************************)
\* the constructor's segment count is drawn from 0 .. MaxSegments
MaxSegments == 3
\* at most MaxSetups calls of setup are made
MaxSetups == 2
\* at most MaxDepth calls are inside their notification at once
MaxDepth == 2

(***************************************************************************)
(* The configuration block (anonymous namespace).                          *)
(***************************************************************************)
vertebra_separation == 750000
c_densityA == 26
c_densityB == 0
c_radius == 50000
c_edge == 2000000
\* tgUtil::round(c.edge / std::sqrt(2.0)) = 14.14214
c_height == 1414214

(***************************************************************************)
(* Strings: tgString(s, i) and the splitting of a tag string into tags.    *)
(***************************************************************************)
Digit(d) == SubSeq("0123456789", d + 1, d + 1)

RECURSIVE Decimal(_)
Decimal(i) == IF i < 10 THEN Digit(i) ELSE Decimal(i \div 10) \o Digit(i % 10)

\* tgString(s, i): s followed by the decimal digits of i, nothing between
tgString(s, i) == s \o Decimal(i)

RECURSIVE Split(_, _)
\* the space-separated words of s; cur is the word being read
Split(s, cur) ==
    IF s = "" THEN (IF cur = "" THEN {} ELSE {cur})
    ELSE IF Head(s) = " "
         THEN (IF cur = "" THEN {} ELSE {cur}) \cup Split(Tail(s), "")
         ELSE Split(Tail(s), cur \o Head(s))

\* tgTags(str): the set of tags a space-separated tag string stands for
tgTags(str) == Split(str, "")

(***************************************************************************)
(* tgStructure: nodes, pairs, tags and child structures.                   *)
(***************************************************************************)
btVector3(x, y, z) == <<x, y, z>>

VecAdd(a, b) == <<a[1] + b[1], a[2] + b[2], a[3] + b[3]>>

VecScale(k, a) == <<k * a[1], k * a[2], k * a[3]>>

tgStructure == [nodes |-> <<>>, pairs |-> <<>>, tags |-> {}, children |-> <<>>]

addNode(s, x, y, z) == [s EXCEPT !.nodes = Append(@, btVector3(x, y, z))]

\* addPair(from, to, tags) on two positions
addPairAt(s, from, to, tags) ==
    [s EXCEPT !.pairs = Append(@, [from |-> from, to |-> to, tags |-> tgTags(tags)])]

\* addPair(i, j, tags) on two node indices (from 0) of the structure itself
addPair(s, i, j, tags) == addPairAt(s, s.nodes[i + 1], s.nodes[j + 1], tags)

addTags(s, tags) == [s EXCEPT !.tags = @ \cup tgTags(tags)]

addChild(s, child) == [s EXCEPT !.children = Append(@, child)]

MovePair(p, v) == [p EXCEPT !.from = VecAdd(@, v), !.to = VecAdd(@, v)]

RECURSIVE move(_, _)
\* move(v): every node, every pair and every child is translated by v
move(s, v) ==
    [s EXCEPT !.nodes = [i \in DOMAIN @ |-> VecAdd(@[i], v)],
              !.pairs = [i \in DOMAIN @ |-> MovePair(@[i], v)],
              !.children = [i \in DOMAIN @ |-> move(@[i], v)]]

getNodes(s) == s.nodes

getChildren(s) == s.children

(***************************************************************************)
(* The helper functions of VerticalSpineModel.                             *)
(***************************************************************************)
\* x uses c.edge, z uses the edge parameter, y uses c.height
addNodes(vertebra, edge, height) ==
    LET v0 == addNode(vertebra, c_edge \div 2, 0, 0)
        v1 == addNode(v0, -(c_edge \div 2), 0, 0)
        v2 == addNode(v1, 0, c_height, -(edge \div 2))
        v3 == addNode(v2, 0, c_height, edge \div 2)
    IN  addNode(v3, 0, c_height \div 2, 0)

addPairs(vertebra) ==
    LET v0 == addPair(vertebra, 0, 4, "rod")
        v1 == addPair(v0, 1, 4, "rod")
        v2 == addPair(v1, 2, 4, "rod")
    IN  addPair(v2, 3, 4, "rod")

addPairsB(vertebra) ==
    LET v0 == addPair(vertebra, 0, 4, "rodB")
        v1 == addPair(v0, 1, 4, "rodB")
        v2 == addPair(v1, 2, 4, "rodB")
    IN  addPair(v2, 3, 4, "rodB")

RECURSIVE addSegmentsFrom(_, _, _, _)
\* the loop of addSegments, from index i
addSegmentsFrom(spine, vertebra, i, segment_count) ==
    IF i < segment_count
    THEN LET offset == btVector3(0, vertebra_separation, 0)
             tagged == addTags(vertebra, tgString("segment", i + 1))
             new_vertebra == move(tagged, VecScale(i + 1, offset))
         IN  addSegmentsFrom(addChild(spine, new_vertebra), vertebra, i + 1,
                             segment_count)
    ELSE spine

\* the loop starts at 0 instead of 1
addSegments_fromZero(spine, vertebra, edge, segment_count) ==
    addSegmentsFrom(spine, vertebra, 0, segment_count)

addSegments(spine, vertebra, edge, segment_count) ==
    addSegmentsFrom(spine, vertebra, 1, segment_count)


\* the element at index i, counted from 0 as in the source
At(seq, i) == seq[i + 1]

\* the eight muscles between one vertebra (nodes n0) and the next (nodes n1):
\* typo of n0 for n1 in the first saddle muscle
addMusclesOf_sameVertebra(spine, n0, n1, i) ==
    LET s0 == addPairAt(spine, At(n0, 0), At(n1, 0), "vertical muscle a")
        s1 == addPairAt(s0, At(n0, 1), At(n1, 1), "vertical muscle b")
        s2 == addPairAt(s1, At(n0, 2), At(n1, 2), "vertical muscle c")
        s3 == addPairAt(s2, At(n0, 3), At(n1, 3), "vertical muscle d")
        s4 == addPairAt(s3, At(n0, 2), At(n0, 1), tgString("saddle muscle seg", i - 1))
        s5 == addPairAt(s4, At(n0, 3), At(n1, 1), tgString("saddle muscle seg", i - 1))
        s6 == addPairAt(s5, At(n0, 2), At(n1, 0), tgString("saddle muscle seg", i - 1))
    IN  addPairAt(s6, At(n0, 3), At(n1, 0), tgString("saddle muscle seg", i - 1))

\* the first vertical muscle is tagged with its map key, not its tag string
addMusclesOf_keyAsTag(spine, n0, n1, i) ==
    LET s0 == addPairAt(spine, At(n0, 0), At(n1, 0), "vertical a")
        s1 == addPairAt(s0, At(n0, 1), At(n1, 1), "vertical muscle b")
        s2 == addPairAt(s1, At(n0, 2), At(n1, 2), "vertical muscle c")
        s3 == addPairAt(s2, At(n0, 3), At(n1, 3), "vertical muscle d")
        s4 == addPairAt(s3, At(n0, 2), At(n1, 1), tgString("saddle muscle seg", i - 1))
        s5 == addPairAt(s4, At(n0, 3), At(n1, 1), tgString("saddle muscle seg", i - 1))
        s6 == addPairAt(s5, At(n0, 2), At(n1, 0), tgString("saddle muscle seg", i - 1))
    IN  addPairAt(s6, At(n0, 3), At(n1, 0), tgString("saddle muscle seg", i - 1))

\* the body of addMuscles' loop: the eight muscles between child i-1 (nodes
\* n0) and child i (nodes n1)
addMusclesOf(spine, n0, n1, i) ==
    LET s0 == addPairAt(spine, At(n0, 0), At(n1, 0), "vertical muscle a")
        s1 == addPairAt(s0, At(n0, 1), At(n1, 1), "vertical muscle b")
        s2 == addPairAt(s1, At(n0, 2), At(n1, 2), "vertical muscle c")
        s3 == addPairAt(s2, At(n0, 3), At(n1, 3), "vertical muscle d")
        s4 == addPairAt(s3, At(n0, 2), At(n1, 1), tgString("saddle muscle seg", i - 1))
        s5 == addPairAt(s4, At(n0, 3), At(n1, 1), tgString("saddle muscle seg", i - 1))
        s6 == addPairAt(s5, At(n0, 2), At(n1, 0), tgString("saddle muscle seg", i - 1))
    IN  addPairAt(s6, At(n0, 3), At(n1, 0), tgString("saddle muscle seg", i - 1))

RECURSIVE addMusclesFrom(_, _, _)
\* the loop of addMuscles, from index i, over the children read at its start
addMusclesFrom(spine, children, i) ==
    IF i < Len(children)
    THEN LET n0 == getNodes(At(children, i - 1))
             n1 == getNodes(At(children, i))
         IN  addMusclesFrom(addMusclesOf(spine, n0, n1, i), children, i + 1)
    ELSE spine

addMuscles(spine) == addMusclesFrom(spine, getChildren(spine), 1)

(***************************************************************************)
(* tgBuildSpec and tgStructureInfo::buildInto: every pair a builder's tag  *)
(* search matches becomes a model that carries the pair's tags.            *)
(***************************************************************************)
rodConfigA == [radius |-> c_radius, density |-> c_densityA]

rodConfigB == [radius |-> c_radius, density |-> c_densityB]

muscleConfig == "muscleConfig"

addBuilder(spec, search, type, config) ==
    Append(spec, [search |-> search, type |-> type, config |-> config])

\* the two rod builders with their configurations exchanged
buildSpec_swapped ==
    LET s0 == addBuilder(<<>>, "rod", "tgRod", rodConfigB)
        s1 == addBuilder(s0, "rodB", "tgRod", rodConfigA)
    IN  addBuilder(s1, "muscle", "tgSpringCableActuator", muscleConfig)

\* the build spec of setup: "rod", "rodB" and "muscle"
buildSpec ==
    LET s0 == addBuilder(<<>>, "rod", "tgRod", rodConfigA)
        s1 == addBuilder(s0, "rodB", "tgRod", rodConfigB)
    IN  addBuilder(s1, "muscle", "tgSpringCableActuator", muscleConfig)

RECURSIVE Concat(_)
Concat(seqs) == IF seqs = <<>> THEN <<>> ELSE Head(seqs) \o Concat(Tail(seqs))

\* a tag search matches a tag set that holds every tag of the search
tgTagSearchMatches(search, tags) == tgTags(search) \subseteq tags

\* the models the builders of spec make of pair p, in builder order
buildPair(p, spec) ==
    Concat([b \in DOMAIN spec |->
              IF tgTagSearchMatches(spec[b].search, p.tags)
              THEN <<[type |-> spec[b].type, tags |-> p.tags, from |-> p.from,
                      to |-> p.to, config |-> spec[b].config]>>
              ELSE <<>>])

RECURSIVE structurePairs(_)
\* the pairs of a structure: those of its children first, then its own
structurePairs(s) ==
    Concat([k \in DOMAIN s.children |-> structurePairs(s.children[k])]) \o s.pairs

\* the models built from a structure, in pair order
buildInto(structure, spec) ==
    LET ps == structurePairs(structure)
    IN  Concat([k \in DOMAIN ps |-> buildPair(ps[k], spec)])

\* the handles of the descendants: their indices, in order
Handles(descendants) == [i \in DOMAIN descendants |-> i]

\* tgCast::filter<tgModel, T>(descendants)
tgCastFilter(descendants, type) ==
    SelectSeq(Handles(descendants), LAMBDA h : descendants[h].type = type)

\* model.find<T>(tags)
find(descendants, type, tags) ==
    SelectSeq(Handles(descendants),
              LAMBDA h : /\ descendants[h].type = type
                         /\ tgTagSearchMatches(tags, descendants[h].tags))

(***************************************************************************)
(* The muscle map.                                                         *)
(***************************************************************************)
EmptyMap == [k \in {} |-> <<>>]

\* muscleMap[key] = value
MapPut(map, key, value) ==
    [k \in DOMAIN map \cup {key} |-> IF k = key THEN value ELSE map[k]]

RECURSIVE mapSaddlesFrom(_, _, _, _)
\* the saddle loop of mapMuscles, from index i
mapSaddlesFrom(muscleMap, model, i, segmentCount) ==
    IF i < segmentCount
    THEN mapSaddlesFrom(
             MapPut(muscleMap, tgString("saddle", i - 1),
                    find(model, "tgSpringCableActuator",
                         tgString("saddle muscle seg", i - 1))),
             model, i + 1, segmentCount)
    ELSE muscleMap

mapVerticals(muscleMap, model) ==
    LET m0 == MapPut(muscleMap, "vertical a",
                     find(model, "tgSpringCableActuator", "vertical muscle a"))
        m1 == MapPut(m0, "vertical b",
                     find(model, "tgSpringCableActuator", "vertical muscle b"))
        m2 == MapPut(m1, "vertical c",
                     find(model, "tgSpringCableActuator", "vertical muscle c"))
    IN  MapPut(m2, "vertical d",
               find(model, "tgSpringCableActuator", "vertical muscle d"))

\* the saddle loop runs one index too far (i <= segmentCount)
mapMuscles_oneMore(muscleMap, model, segmentCount) ==
    mapSaddlesFrom(mapVerticals(muscleMap, model), model, 1, segmentCount + 1)

mapMuscles(muscleMap, model, segmentCount) ==
    mapSaddlesFrom(mapVerticals(muscleMap, model), model, 1, segmentCount)

(***************************************************************************)
(* setup, step, getMuscles, getAllMuscles.                                 *)
(***************************************************************************)
\* the structure graph setup assembles for m_segments = segments
setupSpine(segments) ==
    LET tetraB == move(addPairsB(addNodes(tgStructure, c_edge, c_height)),
                       btVector3(0, 200000, 0))
        tB == addTags(tetraB, tgString("segment", 1))
        spine0 == addChild(tgStructure, tB)
        tetra == move(addPairs(addNodes(tgStructure, c_edge, c_height)),
                      btVector3(0, -600000, 0))
    IN  addMuscles(addSegments(spine0, tetra, c_edge, segments))

\* setup: the structure is assembled and built into the model (descendants
\* model), then allMuscles is filtered out and the muscle map filled
setupModel(model, map, segments) ==
    LET spine == setupSpine(segments)
        built == model \o buildInto(spine, buildSpec)
    IN  [spine |-> spine,
         descendants |-> built,
         allMuscles |-> tgCastFilter(built, "tgSpringCableActuator"),
         muscleMap |-> mapMuscles(map, built, segments)]

(***************************************************************************)
(* A call of setup or step in progress is a record: what it has done so    *)
(* far (notified: notifications made, base: calls of the base class made)  *)
(* and, for a step call, inner: whether another step call has notified or  *)
(* stepped its children since this one notified its observers.             *)
(***************************************************************************)
Call(op, dt) == [op |-> op, dt |-> dt, notified |-> 0, base |-> 0, inner |-> FALSE]

\* notifyStep(dt): the observers are notified; they run before it returns
notifyStep(call) == [call EXCEPT !.notified = @ + 1]

\* notifySetup(): the observers are notified; they run before it returns
notifySetup(call) == [call EXCEPT !.notified = @ + 1]

\* tgModel::setup(world) of the base class
tgModel_setup(call) == [call EXCEPT !.base = @ + 1]

\* tgModel::step(dt) of the base class: the children are stepped, unless the
\* base class rejects dt
tgModel_step(call, rejects) ==
    IF rejects THEN [threw |-> TRUE, call |-> call]
    ELSE [threw |-> FALSE, call |-> [call EXCEPT !.base = @ + 1]]

\* whether the base class may reject dt: never a positive one; for any other
\* dt both outcomes are kept
tgModelRejects(dt) == IF dt > 0 THEN {FALSE} ELSE BOOLEAN

\* the observers are not notified
stepBegin_noNotify(dt) ==
    IF dt < 0 THEN [threw |-> TRUE, call |-> Call("step", dt)]
    ELSE [threw |-> FALSE, call |-> Call("step", dt)]

\* step(dt), up to and including notifyStep(dt)
stepBegin(dt) ==
    IF dt < 0 THEN [threw |-> TRUE, call |-> Call("step", dt)]
    ELSE [threw |-> FALSE, call |-> notifyStep(Call("step", dt))]

\* step(dt), after notifyStep(dt) has returned
stepEnd(call, rejects) == tgModel_step(call, rejects)

\* an absent key yields an empty list instead of invalid_argument
getMuscles_default(map, key) ==
    IF key \notin DOMAIN map
    THEN [threw |-> FALSE, value |-> <<>>, map |-> map]
    ELSE [threw |-> FALSE, value |-> map[key], map |-> map]

\* operator[] in place of find: an absent key is inserted with an empty list
getMuscles_insert(map, key) ==
    IF key \notin DOMAIN map
    THEN [threw |-> FALSE, value |-> <<>>, map |-> MapPut(map, key, <<>>)]
    ELSE [threw |-> FALSE, value |-> map[key], map |-> map]

\* getMuscles(key): the list under key, or invalid_argument
getMuscles(map, key) ==
    IF key \notin DOMAIN map
    THEN [threw |-> TRUE, value |-> <<>>, map |-> map]
    ELSE [threw |-> FALSE, value |-> map[key], map |-> map]

getAllMuscles(all) == all

(***************************************************************************)
(* The state machine.  notifySetup and notifyStep hand control to the      *)
(* observers, which may call the model back before the notification        *)
(* returns: a call that is inside its notification is on the stack, and    *)
(* every operation is open while calls are on the stack.  An exception     *)
(* thrown inside an observer is caught by it or passes on to the call that *)
(* notified it, and so on outwards.                                        *)
(***************************************************************************)
VARIABLES
    m_segments,   \* the constructor's argument
    setups,       \* the number of setup calls made
    spine,        \* the structure graph the last setup assembled
    descendants,  \* the models built into this model, in order
    allMuscles,   \* handles of all actuators
    muscleMap,    \* name -> list of actuator handles
    stack,        \* the setup and step calls that are inside their
                  \* notification, outermost first
    ret           \* the outcome of the call that finished last (by return
                  \* or by throwing), if no call has begun since

vars == <<m_segments, setups, spine, descendants, allMuscles, muscleMap, stack, ret>>

\* whether setup has filled the model
isSetup == setups > 0

\* the dt values step is called with
DtValues == {-1, 0, 1}

\* the keys getMuscles is called with: a vertical key, a saddle key, and a
\* tag string that is never a key
Keys == {"vertical a", tgString("saddle", 0), "vertical muscle a"}

\* the outcome of a finished setup or step call
Outcome(call, threw) ==
    [op |-> call.op, key |-> "", dt |-> call.dt, threw |-> threw, value |-> <<>>,
     notified |-> call.notified, base |-> call.base, inner |-> call.inner]

\* the outcome of a getMuscles or getAllMuscles call
Got(op, key, threw, value) ==
    [op |-> op, key |-> key, dt |-> 0, threw |-> threw, value |-> value,
     notified |-> 0, base |-> 0, inner |-> FALSE]

NoCall == Got("none", "", FALSE, <<>>)

\* the stack once an exception has left its k innermost calls
Unwind(stk, k) == SubSeq(stk, 1, Len(stk) - k)

\* the outcome of the call that finishes last when a call with outcome own
\* throws and the exception leaves the k innermost calls of the stack: the
\* outermost of these, which throws it on; own itself when the caller
\* catches the exception
Thrown(stk, k, own) ==
    IF k = 0 THEN own ELSE Outcome(stk[Len(stk) - k + 1], TRUE)

\* the stack once a step call has notified or stepped its children: every
\* step call around it has seen another call's action
Around(stk) ==
    [i \in DOMAIN stk |->
        IF stk[i].op = "step" THEN [stk[i] EXCEPT !.inner = TRUE] ELSE stk[i]]

\* VerticalSpineModel(segments)
Init ==
    /\ m_segments \in 0 .. MaxSegments
    /\ setups = 0
    /\ spine = tgStructure
    /\ descendants = <<>>
    /\ allMuscles = <<>>
    /\ muscleMap = EmptyMap
    /\ stack = <<>>
    /\ ret = NoCall

\* setup(world), up to and including notifySetup()
Setup ==
    /\ setups < MaxSetups
    /\ Len(stack) < MaxDepth
    /\ LET r == setupModel(descendants, muscleMap, m_segments)
       IN  /\ spine' = r.spine
           /\ descendants' = r.descendants
           /\ allMuscles' = r.allMuscles
           /\ muscleMap' = r.muscleMap
    /\ setups' = setups + 1
    /\ stack' = Append(stack, notifySetup(Call("setup", 0)))
    /\ ret' = NoCall
    /\ UNCHANGED m_segments

\* setup(world), after notifySetup() has returned: tgModel::setup(world)
SetupReturn ==
    /\ stack # <<>>
    /\ stack[Len(stack)].op = "setup"
    /\ ret' = Outcome(tgModel_setup(stack[Len(stack)]), FALSE)
    /\ stack' = Unwind(stack, 1)
    /\ UNCHANGED <<m_segments, setups, spine, descendants, allMuscles, muscleMap>>

\* step(dt), up to and including notifyStep(dt)
Step ==
    /\ \E dt \in DtValues :
          LET r == stepBegin(dt)
          IN  IF r.threw
              THEN \E k \in 0 .. Len(stack) :
                      /\ stack' = Unwind(stack, k)
                      /\ ret' = Thrown(stack, k, Outcome(r.call, TRUE))
              ELSE /\ Len(stack) < MaxDepth
                   /\ stack' = Append(IF r.call.notified > 0 THEN Around(stack)
                                      ELSE stack, r.call)
                   /\ ret' = NoCall
    /\ UNCHANGED <<m_segments, setups, spine, descendants, allMuscles, muscleMap>>

\* step(dt), after notifyStep(dt) has returned: tgModel::step(dt)
StepReturn ==
    /\ stack # <<>>
    /\ stack[Len(stack)].op = "step"
    /\ \E rejects \in tgModelRejects(stack[Len(stack)].dt) :
          LET r == stepEnd(stack[Len(stack)], rejects)
          IN  IF r.threw
              THEN \E k \in 1 .. Len(stack) :
                      /\ stack' = Unwind(stack, k)
                      /\ ret' = Thrown(stack, k, Outcome(r.call, TRUE))
              ELSE /\ stack' = Around(Unwind(stack, 1))
                   /\ ret' = Outcome(r.call, FALSE)
    /\ UNCHANGED <<m_segments, setups, spine, descendants, allMuscles, muscleMap>>

\* getMuscles(key)
GetMuscles ==
    /\ \E key \in Keys :
          LET r == getMuscles(muscleMap, key)
          IN  /\ muscleMap' = r.map
              /\ IF r.threw
                 THEN \E k \in 0 .. Len(stack) :
                         /\ stack' = Unwind(stack, k)
                         /\ ret' = Thrown(stack, k,
                                    Got("getMuscles", key, TRUE, r.value))
                 ELSE /\ stack' = stack
                      /\ ret' = Got("getMuscles", key, FALSE, r.value)
    /\ UNCHANGED <<m_segments, setups, spine, descendants, allMuscles>>

\* getAllMuscles()
GetAllMuscles ==
    /\ ret' = Got("getAllMuscles", "", FALSE, getAllMuscles(allMuscles))
    /\ UNCHANGED <<m_segments, setups, spine, descendants, allMuscles,
                   muscleMap, stack>>

(***************************************************************************)
(* The callers.  The class is driven by the simulation, which is not part  *)
(* of it: setup and step are "invoked once at setup and once per           *)
(* simulation tick", by the simulation and so with no call in progress;    *)
(* the observers (controllers) notified by a call read the muscles.        *)
(***************************************************************************)
\* the simulation invokes setup, once
SetupOnce == setups = 0 /\ stack = <<>> /\ Setup

\* the simulation invokes step for a tick
Tick == stack = <<>> /\ Step

Next ==
    SetupOnce \/ SetupReturn \/ Tick \/ StepReturn \/ GetMuscles \/ GetAllMuscles

Spec == Init /\ [][Next]_vars

(***************************************************************************)
(* Any caller: the operations as the class leaves them open, also to a     *)
(* caller that invokes setup again or to an observer that calls setup or   *)
(* step from inside a notification.                                        *)
(***************************************************************************)
NextAnyCaller ==
    Setup \/ SetupReturn \/ Step \/ StepReturn \/ GetMuscles \/ GetAllMuscles

SpecAnyCaller == Init /\ [][NextAnyCaller]_vars

(***************************************************************************)
(* Notions the properties are stated in.                                   *)
(***************************************************************************)
Range(seq) == {seq[i] : i \in DOMAIN seq}

NoRepeat(seq) == Cardinality(Range(seq)) = Len(seq)

\* the vertebrae of the assembled spine, in child order
Vertebrae == getChildren(spine)

\* the <<vertebra, node>> places (vertebra from 1, node from 0) at position pos
Owners(pos) ==
    {o \in (DOMAIN Vertebrae) \X (0 .. 4) : At(Vertebrae[o[1]].nodes, o[2]) = pos}

\* the handles of the models built from pair p
BuiltFrom(p) ==
    {h \in DOMAIN descendants :
        descendants[h].from = p.from /\ descendants[h].to = p.to}

VerticalKeys == {"vertical a", "vertical b", "vertical c", "vertical d"}

\* the vertebra (from 1) a muscle handle starts at, and the one it ends at
LowerOf(h) == {o[1] : o \in Owners(descendants[h].from)}

UpperOf(h) == {o[1] : o \in Owners(descendants[h].to)}

(***************************************************************************)
(* The properties.                                                         *)
(***************************************************************************)

\* C1: the muscle map is empty until setup fills it; it is filled once, by
\* setup, with handles of actuators already built into the model; and once
\* setup has filled it no step, getMuscles (also with an unknown key) or
\* getAllMuscles call, be it made by the simulation or by an observer,
\* changes its keys or the list under any key.
C1_MuscleMapPopulatedOnce ==
    /\ [](~isSetup => muscleMap = EmptyMap)
    /\ [](isSetup => \A k \in DOMAIN muscleMap : \A i \in DOMAIN muscleMap[k] :
                        /\ muscleMap[k][i] \in DOMAIN descendants
                        /\ descendants[muscleMap[k][i]].type = "tgSpringCableActuator")
    /\ [][muscleMap' # muscleMap => ~isSetup /\ isSetup']_vars

\* a populated map, and an observer of a step call that has just called
\* getMuscles with an unknown key and caught the exception
C1_Witness ==
    /\ isSetup /\ m_segments >= 2
    /\ stack # <<>> /\ stack[Len(stack)].op = "step"
    /\ ret.op = "getMuscles" /\ ret.threw
    /\ Len(muscleMap["vertical a"]) >= 1

\* C2 (as claimed): every pair of the assembled structure graph, those of
\* the base vertebra included, carries the tag "rod" or the tag "muscle".
C2_EveryPairRodOrMuscle ==
    isSetup =>
        \A p \in Range(structurePairs(spine)) : "rod" \in p.tags \/ "muscle" \in p.tags

\* C2 (amended): every pair carries "rod", "rodB" or "muscle": the pairs of
\* the first (base) vertebra carry "rodB" and neither "rod" nor "muscle", the
\* pairs of every other vertebra carry "rod", and the pairs of the spine
\* itself (between vertebrae) carry "muscle".
C2_EveryPairRodRodBOrMuscle ==
    isSetup =>
        /\ \A k \in DOMAIN Vertebrae : \A p \in Range(Vertebrae[k].pairs) :
              IF k = 1
              THEN "rodB" \in p.tags /\ "rod" \notin p.tags /\ "muscle" \notin p.tags
              ELSE "rod" \in p.tags
        /\ \A p \in Range(spine.pairs) : "muscle" \in p.tags
        /\ \A p \in Range(structurePairs(spine)) :
              p.tags \cap {"rod", "rodB", "muscle"} # {}

\* an assembled spine with rods of both kinds and muscles
C2_Witness == isSetup /\ Len(Vertebrae) >= 2 /\ Len(spine.pairs) >= 8

\* C3 (as claimed): a step call with dt <= 0 throws and neither notifies the
\* observers nor steps the children (so no call with dt <= 0 is ever inside
\* its notification); a call with dt > 0 does not throw.
C3_RejectsNonPositiveDt ==
    /\ \A i \in DOMAIN stack : stack[i].op = "step" => stack[i].dt > 0
    /\ ret.op = "step" =>
          IF ret.dt <= 0
          THEN ret.threw /\ ret.notified = 0 /\ ret.base = 0
          ELSE ~ret.threw

\* C4: a getMuscles call returns the list stored under its key when the key
\* is present and throws when it is absent, and leaves the map as it was;
\* before setup every key is rejected.
C4_GetMusclesFindsOrThrows ==
    /\ [][ret' # ret /\ ret'.op = "getMuscles" =>
            /\ muscleMap' = muscleMap
            /\ IF ret'.key \in DOMAIN muscleMap
               THEN ~ret'.threw /\ ret'.value = muscleMap[ret'.key]
               ELSE ret'.threw]_vars
    /\ [](ret.op = "getMuscles" /\ ~isSetup => ret.threw)

\* a key that is present was looked up and its non-empty list returned
C4_Witness ==
    /\ isSetup /\ ret.op = "getMuscles" /\ ~ret.threw
    /\ Len(ret.value) >= 2 /\ ret.value = muscleMap[ret.key]

\* C5 (as claimed): after setup with N >= 2, every two adjacent vertebrae,
\* the base and the second included, are vertebra_separation apart
\* vertically.
C5_UniformSeparation ==
    isSetup /\ m_segments >= 2 =>
        \A k \in 1 .. Len(Vertebrae) - 1 : \A j \in 0 .. 4 :
            At(Vertebrae[k + 1].nodes, j)[2] - At(Vertebrae[k].nodes, j)[2]
                = vertebra_separation

\* the muscles (indices into spine.pairs) from vertebra i to vertebra i + 1
\* that carry tag, as <<node, node>> pairs
MuscleIndices(i, tag) ==
    {q \in DOMAIN spine.pairs :
        /\ tag \in spine.pairs[q].tags
        /\ \E o \in Owners(spine.pairs[q].from) : o[1] = i}

MuscleNodes(i, tag) ==
    {<<a[2], b[2]>> : <<a, b>> \in
        UNION {Owners(spine.pairs[q].from) \X Owners(spine.pairs[q].to) :
                  q \in MuscleIndices(i, tag)}}

\* C6: every muscle joins an outer node (0..3) of one vertebra to an outer
\* node of the next one; each adjacent pair of vertebrae gets exactly four
\* vertical muscles (node j to node j) and four saddle muscles (nodes 2 and
\* 3 of the lower to nodes 0 and 1 of the upper), and there are no others.
C6_MusclesJoinAdjacentVertebrae ==
    isSetup =>
        /\ \A p \in Range(spine.pairs) :
              /\ Cardinality(Owners(p.from)) = 1
              /\ Cardinality(Owners(p.to)) = 1
              /\ \A a \in Owners(p.from) : \A b \in Owners(p.to) :
                    /\ a[2] \in 0 .. 3
                    /\ b[2] \in 0 .. 3
                    /\ b[1] = a[1] + 1
        /\ Len(spine.pairs) = 8 * (Len(Vertebrae) - 1)
        /\ \A i \in 1 .. Len(Vertebrae) - 1 :
              /\ Cardinality(MuscleIndices(i, "vertical")) = 4
              /\ MuscleNodes(i, "vertical") = {<<j, j>> : j \in 0 .. 3}
              /\ Cardinality(MuscleIndices(i, "saddle")) = 4
              /\ MuscleNodes(i, "saddle") = {2, 3} \X {0, 1}

\* a spine of three vertebrae or more, with its sixteen muscles or more
C6_Witness == isSetup /\ Len(Vertebrae) >= 3 /\ Len(spine.pairs) >= 16

\* the segment tags a vertebra carries
SegmentTags(v) == v.tags \cap {tgString("segment", i) : i \in 0 .. MaxSegments + 2}

\* C7 (as claimed): for every N, N = 0 and N = 1 included, setup assembles
\* exactly N vertebrae and the k-th carries the segment tag of k, no two
\* vertebrae sharing one.
C7_ExactlyNVertebrae ==
    isSetup =>
        /\ Len(Vertebrae) = m_segments
        /\ \A k \in DOMAIN Vertebrae :
              SegmentTags(Vertebrae[k]) = {tgString("segment", k)}

\* C7 (amended): for every N >= 1 setup assembles exactly N vertebrae, and
\* for N = 0 it assembles one (the base vertebra is always added); the k-th
\* child carries the segment tag of k and no other segment tag, so no two
\* vertebrae share one.
C7_NVertebraeAtLeastOne ==
    isSetup =>
        /\ Len(Vertebrae) = (IF m_segments = 0 THEN 1 ELSE m_segments)
        /\ \A k \in DOMAIN Vertebrae :
              SegmentTags(Vertebrae[k]) = {tgString("segment", k)}
        /\ \A k, l \in DOMAIN Vertebrae :
              k # l => Vertebrae[k].tags \cap Vertebrae[l].tags = {}

\* three vertebrae or more, tagged in order
C7_Witness ==
    isSetup /\ m_segments >= 3 /\ "segment3" \in Vertebrae[3].tags

\* C8: after setup with N >= 1 the keys are the four vertical keys and
\* saddle0 .. saddle(N-2); a vertical key holds N-1 actuators, one per
\* adjacent pair of vertebrae; a saddle key holds the four saddle actuators
\* of its pair of vertebrae; the lists are pairwise disjoint and their
\* union is getAllMuscles(), 8 * (N-1) actuators.
C8_MuscleMapContents ==
    isSetup /\ m_segments >= 1 =>
        LET N == m_segments
            SaddleKeys == {tgString("saddle", i) : i \in 0 .. N - 2}
        IN  /\ DOMAIN muscleMap = VerticalKeys \cup SaddleKeys
            /\ \A k \in VerticalKeys :
                  /\ Len(muscleMap[k]) = N - 1
                  /\ NoRepeat(muscleMap[k])
                  /\ \A i \in 1 .. N - 1 : \E h \in Range(muscleMap[k]) :
                        /\ "vertical" \in descendants[h].tags
                        /\ LowerOf(h) = {i} /\ UpperOf(h) = {i + 1}
            /\ \A i \in 0 .. N - 2 :
                  /\ Len(muscleMap[tgString("saddle", i)]) = 4
                  /\ NoRepeat(muscleMap[tgString("saddle", i)])
                  /\ \A h \in Range(muscleMap[tgString("saddle", i)]) :
                        /\ "saddle" \in descendants[h].tags
                        /\ LowerOf(h) = {i + 1} /\ UpperOf(h) = {i + 2}
            /\ \A k, l \in DOMAIN muscleMap :
                  k # l => Range(muscleMap[k]) \cap Range(muscleMap[l]) = {}
            /\ UNION {Range(muscleMap[k]) : k \in DOMAIN muscleMap}
                  = Range(getAllMuscles(allMuscles))
            /\ Len(getAllMuscles(allMuscles)) = 8 * (N - 1)
            /\ NoRepeat(getAllMuscles(allMuscles))
            /\ ret.op = "getAllMuscles" => ret.value = allMuscles

\* getAllMuscles was called after setup on a spine of three segments or more
C8_Witness ==
    /\ isSetup /\ stack = <<>> /\ m_segments >= 3
    /\ ret.op = "getAllMuscles" /\ Len(ret.value) >= 16
    /\ tgString("saddle", 1) \in DOMAIN muscleMap

\* C9: a step call that does not throw has notified the observers exactly
\* once and then stepped the children exactly once: while it is inside its
\* notification it has notified once and stepped no child, when it returns
\* it has done each once, and between the two no other step call has
\* notified or stepped the children.
C9_NotifyThenStepChildren ==
    /\ \A i \in DOMAIN stack :
          stack[i].op = "step" =>
              stack[i].notified = 1 /\ stack[i].base = 0 /\ ~stack[i].inner
    /\ ret.op = "step" /\ ~ret.threw =>
          ret.notified = 1 /\ ret.base = 1 /\ ~ret.inner

\* after setup a tick has gone through: the step call has returned
C9_Witness ==
    /\ isSetup /\ stack = <<>> /\ ret.op = "step" /\ ~ret.threw /\ ret.dt > 0
    /\ ret.notified = 1 /\ ret.base = 1

\* C10: for every N >= 1 each vertebra has four rods; each rod is built by
\* exactly one builder, once per setup call; the rods of segment 1 are
\* tagged "rodB" and built with density densityB = 0; the rods of segments
\* 2..N are tagged "rod" and built with density densityA, which is not 0.
C10_OnlyBaseVertebraFixed ==
    isSetup /\ m_segments >= 1 =>
        \A k \in DOMAIN Vertebrae :
            /\ Len(Vertebrae[k].pairs) = 4
            /\ \A p \in Range(Vertebrae[k].pairs) :
                  /\ Cardinality({b \in DOMAIN buildSpec :
                        tgTagSearchMatches(buildSpec[b].search, p.tags)}) = 1
                  /\ Cardinality(BuiltFrom(p)) = setups
                  /\ \A h \in BuiltFrom(p) :
                        /\ descendants[h].type = "tgRod"
                        /\ IF k = 1
                           THEN /\ "rodB" \in p.tags
                                /\ descendants[h].config.density = c_densityB
                                /\ descendants[h].config.density = 0
                           ELSE /\ "rod" \in p.tags
                                /\ descendants[h].config.density = c_densityA
                                /\ descendants[h].config.density # 0

\* rods of the base vertebra and rods of a moving one have been built
C10_Witness ==
    /\ isSetup /\ m_segments >= 2
    /\ \E h \in DOMAIN descendants : "rodB" \in descendants[h].tags
    /\ \E h \in DOMAIN descendants : "rod" \in descendants[h].tags

=============================================================================
